---------------------------- MODULE Spec2Model ----------------------------
(***************************************************************************)
(* A model of sanityml: src/sanityml/core.py (discovery, notebook          *)
(* extraction, the tool runner, the four scan functions) and src/cli.py    *)
(* (main and _print_scan_section).                                         *)
(*                                                                         *)
(* Text is a sequence of units.  A unit is a one-character string ("x",    *)
(* "#", " ", "\n") or a fixed piece of text the program writes as a whole  *)
(* (a message, a header).  Two texts are the same bytes iff they are the   *)
(* same sequence of units.                                                 *)
(***************************************************************************)
EXTENDS Integers, Sequences, FiniteSets, TLC

VARIABLES
    pc,             \* the position of the operation under way
    \* run_tool
    cmd,            \* the argument vector
    env,            \* what the external process does
    tool_result,    \* what run_tool gave back
    \* notebook_to_python
    nb_doc,         \* the notebook document
    conv_result,    \* what notebook_to_python did
    \* the two representations of one cell source
    src_str, src_list, res_str, res_list,
    \* scan_notebooks
    notebooks,      \* the batch
    nb_i,           \* how many notebooks of the batch the loop has taken
    tmpdir,         \* the temporary directory: file name -> content
    errors,         \* core.py:114
    py_files_nb,    \* core.py:115
    tool_args,      \* the paths handed to the static-analysis tool
    tool_files,     \* the temporary directory as the tool found it
    nb_ret,         \* what scan_notebooks returned
    \* discover_targets and main
    tree,           \* the target directory tree
    flags,          \* the command line
    do_scan,        \* cli.py:110-113
    discovery,      \* cli.py:123
    any_issue, any_error,
    scanned,        \* the categories scanned so far, in order
    codes,          \* the status codes the scanned categories returned
    reported,       \* the Reporter has run
    exit_code       \* the status the process ended with

toolVars  == <<cmd, env, tool_result>>
convVars  == <<nb_doc, conv_result>>
reprVars  == <<src_str, src_list, res_str, res_list>>
batchVars == <<notebooks, nb_i, tmpdir, errors, py_files_nb, tool_args, tool_files, nb_ret>>
mainVars  == <<tree, flags, do_scan, discovery, any_issue, any_error, scanned, codes, reported, exit_code>>
vars      == <<pc, toolVars, convVars, reprVars, batchVars, mainVars>>

\* A value for the variables an operation does not use.
None == "None"

ToolIdle  == cmd = <<>> /\ env = None /\ tool_result = None
ConvIdle  == nb_doc = None /\ conv_result = None
ReprIdle  == src_str = <<>> /\ src_list = <<>> /\ res_str = None /\ res_list = None
BatchIdle ==
    /\ notebooks = <<>> /\ nb_i = 0 /\ tmpdir = <<>> /\ errors = <<>>
    /\ py_files_nb = <<>> /\ tool_args = <<>> /\ tool_files = <<>> /\ nb_ret = None
MainIdle  ==
    /\ tree = {} /\ flags = None /\ do_scan = None /\ discovery = None
    /\ any_issue = FALSE /\ any_error = FALSE /\ scanned = <<>> /\ codes = {}
    /\ reported = FALSE /\ exit_code = None

-----------------------------------------------------------------------------
(* Bounds *)

MaxArgs   == 2      \* the longest argument vector given to run_tool
MaxOutLen == 2      \* the longest text the external process prints on a stream
MaxCells  == 2      \* the most cells of a notebook document
MaxSrcLen == 3      \* the longest cell source compared in its two representations
MaxBatch  == 2      \* the most notebooks given to scan_notebooks

-----------------------------------------------------------------------------
(* Text *)

RECURSIVE SeqsUpTo(_, _)
SeqsUpTo(S, n) ==
    IF n = 0 THEN {<<>>}
    ELSE LET shorter == SeqsUpTo(S, n - 1)
         IN  shorter \cup {Append(s, x) : s \in {t \in shorter : Len(t) = n - 1}, x \in S}

\* str.strip() removes these from both ends.
IsSpace(c) == c \in {" ", "\n"}

RECURSIVE LStrip(_)
LStrip(s) == IF s # <<>> /\ IsSpace(Head(s)) THEN LStrip(Tail(s)) ELSE s

RECURSIVE RStrip(_)
RStrip(s) == IF s # <<>> /\ IsSpace(s[Len(s)]) THEN RStrip(SubSeq(s, 1, Len(s) - 1)) ELSE s

Strip(s) == LStrip(RStrip(s))

-----------------------------------------------------------------------------
(* core.py: run_tool *)

Executables == {"bandit", "pip-audit", "modelscan"}
ExitCodes   == {-9, 0, 1, 2}
StreamChars == {"o", " "}

\* What the external process does: the launch fails, the run exceeds the timeout,
\* the invocation fails otherwise, or the process ends with two streams and a code.
ProcessFailures == {[kind |-> k] : k \in {"FileNotFoundError", "TimeoutExpired", "OSError"}}
ProcessEnds(texts, rcs) ==
    {[kind |-> "completed", stdout |-> o, stderr |-> e, returncode |-> rc] :
        o \in texts, e \in texts, rc \in rcs}

\* subprocess.run(cmd, capture_output=True, text=True, timeout=timeout): the
\* exception it raises ("none": it returned).  An empty argument vector has no
\* executable to launch: IndexError.
subprocess_run(c, e) ==
    IF c = <<>> THEN [exc |-> "IndexError"]
    ELSE IF e.kind = "completed"
         THEN [exc |-> "none", stdout |-> e.stdout, stderr |-> e.stderr,
               returncode |-> e.returncode]
         ELSE [exc |-> e.kind]

\* f"'{cmd_name}' not found. Try: `pip install {cmd_name}`", the quote marks spelt out.
NotFoundMsg(cmd_name) ==
    <<"(quote)", cmd_name, "(quote) not found. Try: (backquote)pip install ", cmd_name, "(backquote)">>
TimedOutMsg           == <<"timed out">>
UnexpectedMsg(exc)    == <<"unexpected error: ", exc>>

Returned(output, code) == [raised |-> FALSE, output |-> output, code |-> code]
Raised(exc)            == [raised |-> TRUE, exc |-> exc]

\* run_tool with its last handler (except Exception) left out.
run_tool_no_catch_all(c, e) ==
    LET result == subprocess_run(c, e)
    IN  CASE result.exc = "none" ->
               LET stdout == Strip(result.stdout)
                   stderr == Strip(result.stderr)
               IN  Returned(IF stdout # <<>> THEN stdout ELSE stderr, result.returncode)
          [] result.exc = "FileNotFoundError" -> Returned(NotFoundMsg(c[1]), -1)
          [] result.exc = "TimeoutExpired"    -> Returned(TimedOutMsg, -1)
          [] OTHER                            -> Raised(result.exc)

run_tool(c, e) ==
    LET result == subprocess_run(c, e)
    IN  CASE result.exc = "none" ->
               LET stdout == Strip(result.stdout)
                   stderr == Strip(result.stderr)
               IN  Returned(IF stdout # <<>> THEN stdout ELSE stderr, result.returncode)
          [] result.exc = "FileNotFoundError" -> Returned(NotFoundMsg(c[1]), -1)
          [] result.exc = "TimeoutExpired"    -> Returned(TimedOutMsg, -1)
          [] OTHER                            -> Returned(UnexpectedMsg(result.exc), -1)

ToolInit ==
    /\ pc = "run_tool"
    /\ cmd \in SeqsUpTo(Executables, MaxArgs)
    /\ env \in ProcessFailures \cup ProcessEnds(SeqsUpTo(StreamChars, MaxOutLen), ExitCodes)
    /\ tool_result = None
    /\ ConvIdle /\ ReprIdle /\ BatchIdle /\ MainIdle

RunTool ==
    /\ pc = "run_tool"
    /\ tool_result' = run_tool(cmd, env)
    /\ pc' = "run_tool_done"
    /\ UNCHANGED <<cmd, env, convVars, reprVars, batchVars, mainVars>>

ToolNext == RunTool
SpecTool == ToolInit /\ [][ToolNext]_vars

Contains(text, unit) == \E i \in 1..Len(text) : text[i] = unit

\* C3: run_tool always returns an (output, exit code) pair and never raises: a
\* launch that fails gives a message containing the executable's name and -1, a
\* timeout gives ("timed out", -1), any other invocation failure gives a message
\* describing the error and -1, and a normal completion gives the subprocess's
\* own exit code.
C3_RunToolNeverRaises ==
    pc = "run_tool_done" =>
        /\ ~tool_result.raised
        /\ tool_result.code \in Int
        /\ LET launched == cmd # <<>>
               failure  == IF launched THEN env.kind ELSE "IndexError"
           IN  /\ (launched /\ env.kind = "FileNotFoundError") =>
                     (tool_result.code = -1 /\ Contains(tool_result.output, cmd[1]))
               /\ (launched /\ env.kind = "TimeoutExpired") =>
                     (tool_result.code = -1 /\ tool_result.output = <<"timed out">>)
               /\ (~launched \/ env.kind = "OSError") =>
                     (tool_result.code = -1 /\ Contains(tool_result.output, failure))
               /\ (launched /\ env.kind = "completed") =>
                     tool_result.code = env.returncode

\* An invocation that failed in none of the two named ways has returned.
C3_Witness ==
    /\ pc = "run_tool_done"
    /\ cmd # <<>>
    /\ env.kind = "OSError"
    /\ ~tool_result.raised
    /\ tool_result.code = -1

-----------------------------------------------------------------------------
(* core.py: notebook_to_python *)

Flatten(seqs) ==
    LET F[k \in 0..Len(seqs)] == IF k = 0 THEN <<>> ELSE F[k - 1] \o seqs[k]
    IN  F[Len(seqs)]

\* str(n) for n >= 0.
DigitChar == <<"0", "1", "2", "3", "4", "5", "6", "7", "8", "9">>
RECURSIVE ToDecimal(_)
ToDecimal(n) ==
    IF n < 10 THEN <<DigitChar[n + 1]>>
    ELSE Append(ToDecimal(n \div 10), DigitChar[(n % 10) + 1])

\* str.splitlines() without keepends: the lines lose their line breaks.
RECURSIVE SplitLinesNoEnds(_)
SplitLinesNoEnds(s) ==
    IF s = <<>> THEN <<>>
    ELSE LET ends == {k \in 1..Len(s) : s[k] = "\n"}
         IN  IF ends = {} THEN <<s>>
             ELSE LET k == CHOOSE e \in ends : \A o \in ends : e <= o
                  IN  <<SubSeq(s, 1, k - 1)>> \o SplitLinesNoEnds(SubSeq(s, k + 1, Len(s)))

\* str.splitlines(keepends=True), the newline being the one line boundary of the
\* model's texts.
RECURSIVE SplitLines(_)
SplitLines(s) ==
    IF s = <<>> THEN <<>>
    ELSE LET ends == {k \in 1..Len(s) : s[k] = "\n"}
         IN  IF ends = {} THEN <<s>>
             ELSE LET k == CHOOSE e \in ends : \A o \in ends : e <= o
                  IN  <<SubSeq(s, 1, k)>> \o SplitLines(SubSeq(s, k + 1, Len(s)))

\* line.strip() and not line.strip().startswith("#")
IsCodeLine(line) ==
    LET stripped == Strip(line)
    IN  stripped # <<>> /\ Head(stripped) # "#"

\* A document: the cells json.loads and nb.get("cells", []) give, or one that
\* json.loads or the dictionary reads reject.
Document(cells) == [parsed |-> TRUE, cells |-> cells]
Malformed       == [parsed |-> FALSE, cells |-> <<>>]

StrSource(text)   == [kind |-> "str", text |-> text]
ListSource(lines) == [kind |-> "list", lines |-> lines]
OtherSource       == [kind |-> "other"]
Cell(type, source) == [cell_type |-> type, source |-> source]

HeaderText(name) == <<"# Converted from ">> \o name \o <<"\n">>
\* The separator with the cell's 0-based index, not i + 1.
SeparatorZeroBased(i) == <<"\n", "# --- Cell ">> \o ToDecimal(i) \o <<" ---", "\n">>
\* f"\n# --- Cell {i+1} ---\n" for the enumerate index i.
Separator(i)      == <<"\n", "# --- Cell ">> \o ToDecimal(i + 1) \o <<" ---", "\n">>

ConversionFailed(name, exc, msg) ==
    <<"Conversion failed for ">> \o name \o <<": ", exc, ": ", msg>>

\* The loop of lines 50-65 from index i (0-based) on: the text written and code_found.
RECURSIVE write_cells(_, _, _)
write_cells(cells, i, st) ==
    IF i >= Len(cells) THEN st
    ELSE LET cell == cells[i + 1]
         IN  IF cell.cell_type # "code" THEN write_cells(cells, i + 1, st)
             ELSE IF cell.source.kind = "other" THEN write_cells(cells, i + 1, st)
             ELSE LET lines == IF cell.source.kind = "str"
                               THEN SplitLines(cell.source.text)
                               ELSE cell.source.lines
                  IN  IF lines # <<>> /\ \E k \in 1..Len(lines) : IsCodeLine(lines[k])
                      THEN write_cells(cells, i + 1,
                               [f |-> st.f \o Separator(i) \o Flatten(lines) \o <<"\n">>,
                                code_found |-> TRUE])
                      ELSE write_cells(cells, i + 1, st)

\* What notebook_to_python(notebook_path, output_path) does: whether it raised
\* (and the RuntimeError's text), whether it opened output_path for writing, and
\* the text output_path then holds.
notebook_to_python(name, doc) ==
    IF ~doc.parsed
    THEN [raised |-> TRUE, opened |-> FALSE, f |-> <<>>,
          error |-> ConversionFailed(name, "JSONDecodeError", "malformed document")]
    ELSE IF doc.cells = <<>>
    THEN [raised |-> TRUE, opened |-> FALSE, f |-> <<>>,
          error |-> ConversionFailed(name, "ValueError", "No cells in notebook")]
    ELSE LET st == write_cells(doc.cells, 0, [f |-> HeaderText(name), code_found |-> FALSE])
         IN  IF ~st.code_found
             THEN [raised |-> TRUE, opened |-> TRUE, f |-> st.f,
                   error |-> ConversionFailed(name, "ValueError",
                                              "No executable code in notebook")]
             ELSE [raised |-> FALSE, opened |-> TRUE, f |-> st.f, error |-> <<>>]

\* The cell sources the extraction is run on: texts and line lists that are empty,
\* blank, comment-only, code, and mixed; a list element holding two text lines; a
\* source that is neither a string nor a list.
CodeLine    == <<"x", "\n">>
CommentLine == <<"#", "x", "\n">>
BlankLine   == <<" ", "\n">>
CellSources ==
    {StrSource(t) : t \in {<<>>, CodeLine, CommentLine, BlankLine, <<" ", "#">>,
                           <<"#", "\n", " ", "x">>}}
    \cup {ListSource(l) : l \in {<<>>, <<CodeLine>>, <<CommentLine>>,
                                 <<CommentLine, CodeLine>>, <<BlankLine, <<" ", "#">>>>,
                                 <<<<"#", "\n", "x">>>>}}
    \cup {OtherSource}
Cells ==
    {Cell("code", src) : src \in CellSources}
    \cup {Cell("markdown", StrSource(CodeLine)), Cell("raw", ListSource(<<CodeLine>>))}

NotebookName == <<"n", ".", "i", "p", "y", "n", "b">>

ExtractInit ==
    /\ pc = "convert"
    /\ nb_doc \in {Malformed} \cup {Document(cs) : cs \in SeqsUpTo(Cells, MaxCells)}
    /\ conv_result = None
    /\ ToolIdle /\ ReprIdle /\ BatchIdle /\ MainIdle

Convert ==
    /\ pc = "convert"
    /\ conv_result' = notebook_to_python(NotebookName, nb_doc)
    /\ pc' = "convert_done"
    /\ UNCHANGED <<nb_doc, toolVars, reprVars, batchVars, mainVars>>

ExtractNext == Convert
SpecExtract == ExtractInit /\ [][ExtractNext]_vars

\* The claim's terms, stated on the document alone.  A line of a string source is
\* a maximal stretch without an interior line break; a line of a list source is
\* an element of the list.  A line counts as code when its first character that
\* is not white space exists and is not "#".
FirstInkIsCode(text, from, to) ==
    \E k \in from..to :
        /\ ~IsSpace(text[k]) /\ text[k] # "#"
        /\ \A m \in from..(k - 1) : IsSpace(text[m])
HasCodeLine(source) ==
    CASE source.kind = "str" ->
           LET t == source.text
           IN  \E a \in 1..Len(t) : \E b \in a..Len(t) :
                 /\ a = 1 \/ t[a - 1] = "\n"
                 /\ b = Len(t) \/ t[b] = "\n"
                 /\ \A m \in a..(b - 1) : t[m] # "\n"
                 /\ FirstInkIsCode(t, a, b)
      [] source.kind = "list" ->
           \E k \in 1..Len(source.lines) :
               FirstInkIsCode(source.lines[k], 1, Len(source.lines[k]))
      [] OTHER -> FALSE
Qualifies(cell) == cell.cell_type = "code" /\ HasCodeLine(cell.source)
SourceText(source) ==
    IF source.kind = "str" THEN source.text ELSE Flatten(source.lines)
\* Header, then for each qualifying cell its separator (position among all the
\* cells, from 1), its text and a line break.
ExpectedExtraction(name, cells) ==
    LET Body[k \in 0..Len(cells)] ==
            IF k = 0 THEN <<>>
            ELSE IF Qualifies(cells[k])
                 THEN Body[k - 1] \o <<"\n", "# --- Cell ">> \o ToDecimal(k)
                          \o <<" ---", "\n">> \o SourceText(cells[k].source) \o <<"\n">>
                 ELSE Body[k - 1]
    IN  <<"# Converted from ">> \o name \o <<"\n">> \o Body[Len(cells)]

\* C6: notebook_to_python fails with the conversion error on a document with no
\* cells and on one none of whose code cells has a non-blank, non-comment line;
\* on every other document it succeeds and writes the header, then for each code
\* cell with such a line, and for no other cell, the separator carrying the
\* cell's 1-indexed position among all cells, then the cell's lines in order.
C6_ExtractionContract ==
    (pc = "convert_done" /\ nb_doc.parsed) =>
        IF nb_doc.cells = <<>> \/ \A k \in 1..Len(nb_doc.cells) : ~Qualifies(nb_doc.cells[k])
        THEN /\ conv_result.raised
             /\ conv_result.error[1] = "Conversion failed for "
        ELSE /\ ~conv_result.raised
             /\ conv_result.f = ExpectedExtraction(NotebookName, nb_doc.cells)

\* A document whose second cell is the only one with code has been extracted.
C6_Witness ==
    /\ pc = "convert_done"
    /\ nb_doc.parsed
    /\ Len(nb_doc.cells) = 2
    /\ ~Qualifies(nb_doc.cells[1]) /\ Qualifies(nb_doc.cells[2])
    /\ ~conv_result.raised
    /\ Contains(conv_result.f, "2")

-----------------------------------------------------------------------------
(* One cell source in its two representations *)

SrcChars == {"x", "#", " ", "\n"}

\* Every way of cutting a text into non-empty pieces: the sequences of non-empty
\* strings whose concatenation is the text.
RECURSIVE Splittings(_)
Splittings(s) ==
    IF s = <<>> THEN {<<>>}
    ELSE UNION {{<<SubSeq(s, 1, k)>> \o rest : rest \in Splittings(SubSeq(s, k + 1, Len(s)))} :
                   k \in 1..Len(s)}

ReprInit ==
    /\ pc = "compare"
    /\ src_str \in SeqsUpTo(SrcChars, MaxSrcLen)
    /\ src_list \in Splittings(src_str)
    /\ res_str = None /\ res_list = None
    /\ ToolIdle /\ ConvIdle /\ BatchIdle /\ MainIdle

ConvertBoth ==
    /\ pc = "compare"
    /\ res_str' = notebook_to_python(NotebookName,
                                     Document(<<Cell("code", StrSource(src_str))>>))
    /\ res_list' = notebook_to_python(NotebookName,
                                      Document(<<Cell("code", ListSource(src_list))>>))
    /\ pc' = "compare_done"
    /\ UNCHANGED <<src_str, src_list, toolVars, convVars, batchVars, mainVars>>

ReprNext == ConvertBoth
SpecRepr == ReprInit /\ [][ReprNext]_vars

\* C7 as claimed: a cell source gives the same result (success or failure, the
\* cell qualifying or not, the bytes written) as a single string and as any
\* sequence of strings whose concatenation is that string.
C7_AnySplitSameResult ==
    pc = "compare_done" =>
        /\ Flatten(src_list) = src_str
        /\ res_str.raised = res_list.raised
        /\ res_str.f = res_list.f

\* The sequence holds exactly the lines of the text: each element is one line,
\* ending at the first line break it contains, and only the last may lack one.
IsLineSequence(lines, text) ==
    /\ Flatten(lines) = text
    /\ \A k \in 1..Len(lines) :
          /\ lines[k] # <<>>
          /\ \A m \in 1..(Len(lines[k]) - 1) : lines[k][m] # "\n"
          /\ k < Len(lines) => lines[k][Len(lines[k])] = "\n"

\* C7, amended: a cell source gives the same result as a single string and as the
\* sequence of that string's lines (the string cut after each line break).
C7_LineSequenceSameResult ==
    (pc = "compare_done" /\ IsLineSequence(src_list, src_str)) =>
        /\ res_str.raised = res_list.raised
        /\ res_str.error = res_list.error
        /\ res_str.f = res_list.f

\* A source of two lines, the second one code, was extracted in both forms.
C7_Witness ==
    /\ pc = "compare_done"
    /\ Len(src_list) = 2
    /\ IsLineSequence(src_list, src_str)
    /\ ~res_str.raised /\ ~res_list.raised
    /\ Len(res_list.f) > Len(HeaderText(NotebookName))

-----------------------------------------------------------------------------
(* core.py: scan_notebooks *)

\* The bytes a unit of text takes in the file.
UnitSize(u) ==
    CASE u = "# Converted from " -> 17
      [] u = "# --- Cell "       -> 11
      [] u = " ---"              -> 4
      [] OTHER                   -> 1
\* st_size of a file holding the text.
Size(text) ==
    LET S[k \in 0..Len(text)] == IF k = 0 THEN 0 ELSE S[k - 1] + UnitSize(text[k])
    IN  S[Len(text)]

SizeThreshold == 30
\* The test with the threshold ten times too high.
is_non_trivial_wrong_threshold(size) == size > 10 * SizeThreshold
\* py_path.stat().st_size > 30
is_non_trivial(size) == size > SizeThreshold

\* A notebook path <dir>/<parent>/<stem>.ipynb and the document stored there.
Notebook(dir, parent, stem, doc) ==
    [dir |-> dir, parent |-> parent, stem |-> stem, doc |-> doc]
PathOf(nb) == <<nb.dir, nb.parent, nb.stem>>
\* notebook_path.name
NameOf(nb) == nb.stem \o <<".", "i", "p", "y", "n", "b">>
\* f"{nb.stem}_{nb.parent.name}.py" in the temporary directory
py_path(nb) == nb.stem \o <<"_">> \o nb.parent \o <<".", "p", "y">>

WarningMark == "(warning sign) "
NoNotebooksMarker  == <<"(skip sign) No notebooks to scan">>
NoCodeMarker       == <<"(warning sign) No executable code in notebooks">>

\* The loop body, lines 119-125, with a failure's message not kept.
convert_step_drops_error(st, nb) ==
    LET target == py_path(nb)
        r      == notebook_to_python(NameOf(nb), nb.doc)
        files  == IF r.opened THEN (target :> r.f) @@ st.tmpdir ELSE st.tmpdir
    IN  IF r.raised
        THEN [tmpdir |-> files, errors |-> st.errors, py_files_nb |-> st.py_files_nb]
        ELSE IF target \in DOMAIN files /\ is_non_trivial(Size(files[target]))
             THEN [tmpdir |-> files, errors |-> st.errors,
                   py_files_nb |-> Append(st.py_files_nb, target)]
             ELSE [tmpdir |-> files, errors |-> st.errors, py_files_nb |-> st.py_files_nb]

\* The loop body, lines 119-125: open(output_path, "w") replaces what the file
\* held; an exception is recorded, a file above the threshold is listed.
convert_step(st, nb) ==
    LET target == py_path(nb)
        r      == notebook_to_python(NameOf(nb), nb.doc)
        files  == IF r.opened THEN (target :> r.f) @@ st.tmpdir ELSE st.tmpdir
    IN  IF r.raised
        THEN [tmpdir |-> files, errors |-> Append(st.errors, r.error),
              py_files_nb |-> st.py_files_nb]
        ELSE IF target \in DOMAIN files /\ is_non_trivial(Size(files[target]))
             THEN [tmpdir |-> files, errors |-> st.errors,
                   py_files_nb |-> Append(st.py_files_nb, target)]
             ELSE [tmpdir |-> files, errors |-> st.errors, py_files_nb |-> st.py_files_nb]

\* "\n".join(f"(warning sign) {err}" for err in errors)
error_summary(errs) ==
    LET J[k \in 0..Len(errs)] ==
            IF k = 0 THEN <<>>
            ELSE IF k = 1 THEN <<WarningMark>> \o errs[1]
            ELSE J[k - 1] \o <<"\n", WarningMark>> \o errs[k]
    IN  J[Len(errs)]

bandit_cmd(paths) == <<"bandit", "-r">> \o paths \o <<"-f", "txt">>

\* Lines 127-141, given what run_tool returned when it was called.
scan_notebooks_return(st, tool) ==
    IF st.py_files_nb # <<>>
    THEN [output |-> Strip(error_summary(st.errors) \o <<"\n">> \o tool.output),
          code |-> tool.code, errors |-> st.errors]
    ELSE IF st.errors = <<>>
         THEN [output |-> NoCodeMarker, code |-> 0, errors |-> <<>>]
         ELSE [output |-> error_summary(st.errors), code |-> 0, errors |-> st.errors]

RECURSIVE convert_all(_, _, _)
convert_all(batch, k, st) ==
    IF k > Len(batch) THEN st ELSE convert_all(batch, k + 1, convert_step(st, batch[k]))

\* scan_notebooks(notebooks) where the external process behaves as e.
scan_notebooks(batch, e) ==
    IF batch = <<>> THEN [output |-> NoNotebooksMarker, code |-> 0, errors |-> <<>>]
    ELSE LET st == convert_all(batch, 1,
                       [tmpdir |-> <<>>, errors |-> <<>>, py_files_nb |-> <<>>])
         IN  scan_notebooks_return(st, run_tool(bandit_cmd(st.py_files_nb), e))

\* The batches: notebooks at four paths, of which a/x/n and b/x/n share stem and
\* parent name, and a/x_y/n and a/y/n_x share the joined name; each holds a
\* malformed document, one with no cells, one with a comment-only cell, one with
\* a comment and a code line, or one with a one-character code cell.
BatchPaths ==
    {<<<<"a">>, <<"x">>, <<"n">>>>, <<<<"b">>, <<"x">>, <<"n">>>>,
     <<<<"a">>, <<"x", "_", "y">>, <<"n">>>>, <<<<"a">>, <<"y">>, <<"n", "_", "x">>>>}
BatchDocs ==
    {Malformed, Document(<<>>),
     Document(<<Cell("code", StrSource(CommentLine))>>),
     Document(<<Cell("code", ListSource(<<CommentLine, CodeLine>>))>>),
     Document(<<Cell("markdown", StrSource(CodeLine)), Cell("code", StrSource(<<"x">>))>>)}
BatchNotebooks == {Notebook(p[1], p[2], p[3], d) : p \in BatchPaths, d \in BatchDocs}
DistinctPaths(batch) ==
    \A i, j \in 1..Len(batch) : i # j => PathOf(batch[i]) # PathOf(batch[j])
\* What the external tool does when a scan function runs it.
ScanEnvs == ProcessFailures \cup ProcessEnds({<<>>, <<"o">>}, {0, 1, 2})

BatchInit ==
    /\ pc = "scan_notebooks"
    /\ notebooks \in {b \in SeqsUpTo(BatchNotebooks, MaxBatch) : DistinctPaths(b)}
    /\ nb_i = 0 /\ tmpdir = <<>> /\ errors = <<>> /\ py_files_nb = <<>>
    /\ tool_args = <<>> /\ tool_files = <<>> /\ nb_ret = None
    /\ ToolIdle /\ ConvIdle /\ ReprIdle /\ MainIdle

\* Lines 111-112.
NbNone ==
    /\ pc = "scan_notebooks"
    /\ notebooks = <<>>
    /\ nb_ret' = [output |-> NoNotebooksMarker, code |-> 0, errors |-> <<>>]
    /\ pc' = "scan_done"
    /\ UNCHANGED <<notebooks, nb_i, tmpdir, errors, py_files_nb, tool_args, tool_files,
                   toolVars, convVars, reprVars, mainVars>>

\* One turn of the loop of line 118.
NbConvert ==
    /\ pc = "scan_notebooks"
    /\ nb_i < Len(notebooks)
    /\ LET st == convert_step([tmpdir |-> tmpdir, errors |-> errors,
                               py_files_nb |-> py_files_nb], notebooks[nb_i + 1])
       IN  /\ tmpdir' = st.tmpdir
           /\ errors' = st.errors
           /\ py_files_nb' = st.py_files_nb
    /\ nb_i' = nb_i + 1
    /\ UNCHANGED <<pc, notebooks, tool_args, tool_files, nb_ret,
                   toolVars, convVars, reprVars, mainVars>>

\* Lines 132-137: the tool runs on the listed files; the directory is removed on
\* the way out.
NbRunTool ==
    /\ pc = "scan_notebooks"
    /\ notebooks # <<>> /\ nb_i = Len(notebooks)
    /\ py_files_nb # <<>>
    /\ \E e \in ScanEnvs :
          /\ env' = e
          /\ cmd' = bandit_cmd(py_files_nb)
          /\ tool_result' = run_tool(bandit_cmd(py_files_nb), e)
          /\ nb_ret' = scan_notebooks_return(
                           [tmpdir |-> tmpdir, errors |-> errors,
                            py_files_nb |-> py_files_nb],
                           run_tool(bandit_cmd(py_files_nb), e))
    /\ tool_args' = py_files_nb
    /\ tool_files' = tmpdir
    /\ tmpdir' = <<>>
    /\ pc' = "scan_done"
    /\ UNCHANGED <<notebooks, nb_i, errors, py_files_nb, convVars, reprVars, mainVars>>

\* Lines 138-141: nothing to hand to the tool.
NbNoTool ==
    /\ pc = "scan_notebooks"
    /\ notebooks # <<>> /\ nb_i = Len(notebooks)
    /\ py_files_nb = <<>>
    /\ nb_ret' = scan_notebooks_return(
                     [tmpdir |-> tmpdir, errors |-> errors, py_files_nb |-> py_files_nb],
                     None)
    /\ tmpdir' = <<>>
    /\ pc' = "scan_done"
    /\ UNCHANGED <<notebooks, nb_i, errors, py_files_nb, tool_args, tool_files,
                   toolVars, convVars, reprVars, mainVars>>

BatchNext == NbNone \/ NbConvert \/ NbRunTool \/ NbNoTool
SpecBatch == BatchInit /\ [][BatchNext]_vars

\* The claims' terms, stated on the batch alone.
ConversionFails(nb) ==
    \/ ~nb.doc.parsed
    \/ nb.doc.cells = <<>>
    \/ \A k \in 1..Len(nb.doc.cells) : ~Qualifies(nb.doc.cells[k])
\* The notebooks among the first n of the batch that satisfy Keep, in order.
Select(batch, n, Keep(_)) ==
    LET F[k \in 0..n] ==
            IF k = 0 THEN <<>>
            ELSE IF Keep(batch[k]) THEN Append(F[k - 1], batch[k]) ELSE F[k - 1]
    IN  F[n]
Failed(batch, n)    == Select(batch, n, ConversionFails)
Converted(batch, n) == Select(batch, n, LAMBDA nb : ~ConversionFails(nb))
IsPrefix(a, b) == Len(a) <= Len(b) /\ SubSeq(b, 1, Len(a)) = a
\* One warning line per failed notebook, naming it, the lines in the batch's order.
WarningLines(failed) ==
    /\ Len(errors) = Len(failed)
    /\ \A k \in 1..Len(failed) :
          IsPrefix(<<"Conversion failed for ">> \o NameOf(failed[k]), errors[k])
\* The warning lines: one per error, marked, each on its own line.
WarningText(errs) ==
    LET W[k \in 0..Len(errs)] ==
            IF k = 0 THEN <<>>
            ELSE W[k - 1] \o (IF k = 1 THEN <<>> ELSE <<"\n">>)
                     \o <<WarningMark>> \o errs[k]
    IN  W[Len(errs)]
\* The warnings, then on a new line the tool's output, either part possibly empty.
WarningsThenTool(warnings, tool_output) ==
    warnings \o (IF warnings # <<>> /\ tool_output # <<>> THEN <<"\n">> ELSE <<>>)
             \o tool_output

C10_ThresholdNeverFilters ==
    /\ Len(errors) + Len(py_files_nb) = nb_i
    /\ Len(errors) = Len(Failed(notebooks, nb_i))
    /\ \A k \in 1..nb_i :
          ~ConversionFails(notebooks[k]) =>
              Size(ExpectedExtraction(NameOf(notebooks[k]), notebooks[k].doc.cells))
                  > SizeThreshold
    /\ pc = "scan_done" => nb_ret.output # NoCodeMarker

\* The smallest extraction of the batches (a one-character cell) was listed.
C10_Witness ==
    /\ pc = "scan_notebooks"
    /\ nb_i = 1
    /\ ~ConversionFails(notebooks[1])
    /\ py_files_nb = <<py_path(notebooks[1])>>
    /\ Size(tmpdir[py_files_nb[1]]) < 2 * SizeThreshold

\* The notebook's conversion got as far as writing to its temporary path.
Extracted(nb) == nb.doc.parsed /\ nb.doc.cells # <<>>

\* C4: notebooks with pairwise distinct paths are extracted to pairwise distinct
\* temporary paths, so that when the tool runs every path it is given holds the
\* complete extraction, larger than 30, of exactly one converted notebook, and no
\* extraction was overwritten or truncated by a later one.
C4_DistinctExtractions ==
    (pc = "scan_done" /\ tool_args # <<>>) =>
        /\ \A i, j \in 1..Len(notebooks) :
              (i # j /\ Extracted(notebooks[i]) /\ Extracted(notebooks[j])) =>
                  py_path(notebooks[i]) # py_path(notebooks[j])
        /\ \A i \in 1..Len(notebooks) :
              ~ConversionFails(notebooks[i]) =>
                  tool_files[py_path(notebooks[i])] =
                      ExpectedExtraction(NameOf(notebooks[i]), notebooks[i].doc.cells)
        /\ \A k \in 1..Len(tool_args) :
              /\ tool_args[k] \in DOMAIN tool_files
              /\ Size(tool_files[tool_args[k]]) > SizeThreshold
              /\ Cardinality({i \in 1..Len(notebooks) :
                     /\ ~ConversionFails(notebooks[i])
                     /\ py_path(notebooks[i]) = tool_args[k]
                     /\ tool_files[tool_args[k]] =
                            ExpectedExtraction(NameOf(notebooks[i]),
                                               notebooks[i].doc.cells)}) = 1

-----------------------------------------------------------------------------
(* core.py: discover_targets *)

\* A file or directory name: its stem and its last suffix.
Name(stem, ext) == [stem |-> stem, ext |-> ext]
A_PY   == Name(<<"a">>, ".py")
B_PY   == Name(<<"b">>, ".py")
M_PT   == Name(<<"m">>, ".pt")
N_IPYNB == Name(<<"n">>, ".ipynb")
REQUIREMENTS_TXT == Name(<<"r", "e", "q", "u", "i", "r", "e", "m", "e", "n", "t", "s">>, ".txt")
\* The names in the order Python compares them as strings.
NameOrder == <<A_PY, B_PY, M_PT, N_IPYNB, REQUIREMENTS_TXT>>
NameRank(n) == CHOOSE k \in 1..Len(NameOrder) : NameOrder[k] = n
ExtChars(ext) ==
    CASE ext = ".py"    -> <<".", "p", "y">>
      [] ext = ".pt"    -> <<".", "p", "t">>
      [] ext = ".ipynb" -> <<".", "i", "p", "y", "n", "b">>
      [] ext = ".txt"   -> <<".", "t", "x", "t">>
NameChars(n) == n.stem \o ExtChars(n.ext)
TargetName == <<"t">>

\* An entry of the tree under the target: its path from the target, whether it is
\* a file or a directory, and, for a notebook file, the document it holds.
File(path, doc) == [path |-> path, kind |-> "file", doc |-> doc]
Dir(path)       == [path |-> path, kind |-> "dir", doc |-> Malformed]

\* Path.__lt__: the parts compared in order, a proper prefix first.
PathLess(p, q) ==
    \/ Len(p) < Len(q) /\ SubSeq(q, 1, Len(p)) = p
    \/ \E k \in 1..Len(p) :
          /\ k <= Len(q)
          /\ SubSeq(p, 1, k - 1) = SubSeq(q, 1, k - 1)
          /\ NameRank(p[k]) < NameRank(q[k])

\* sorted(paths)
RECURSIVE Sorted(_)
Sorted(S) ==
    IF S = {} THEN <<>>
    ELSE LET m == CHOOSE x \in S : \A y \in S : x = y \/ PathLess(x, y)
         IN  <<m>> \o Sorted(S \ {m})

\* target.rglob("*" + ext): every entry below the target, file or directory,
\* whose name ends in ext.
rglob(t, ext) == {e.path : e \in {x \in t : x.path[Len(x.path)].ext = ext}}

ModelExts == {".pt", ".pth", ".pkl", ".joblib", ".h5", ".safetensors"}

\* The dictionary discover_targets returns: a key for each category asked for.
discover_targets(t, scan_nb, scan_python, scan_deps, scan_models) ==
    LET req_file == <<REQUIREMENTS_TXT>>
        py  == IF scan_python THEN ("py_files" :> Sorted(rglob(t, ".py"))) ELSE <<>>
        nb  == IF scan_nb THEN ("notebooks" :> Sorted(rglob(t, ".ipynb"))) ELSE <<>>
        req == IF scan_deps
               THEN ("requirements" :>
                        IF \E e \in t : e.path = req_file THEN <<req_file>> ELSE <<>>)
               ELSE <<>>
        md  == IF scan_models
               THEN ("models" :> Sorted(UNION {rglob(t, ext) : ext \in ModelExts}))
               ELSE <<>>
    IN  py @@ nb @@ req @@ md

\* discovery.get(key, default)
Get(d, key, default) == IF key \in DOMAIN d THEN d[key] ELSE default

GoodDoc    == Document(<<Cell("code", StrSource(CodeLine))>>)
CommentDoc == Document(<<Cell("code", StrSource(CommentLine))>>)
\* The trees: a.py as a file, as a directory, or as a directory holding b.py; the
\* notebook n.ipynb with code or with comments only; requirements.txt; m.pt.
Trees ==
    {py \cup nb \cup req \cup md :
        py  \in {{}, {File(<<A_PY>>, Malformed)}, {Dir(<<A_PY>>)},
                 {Dir(<<A_PY>>), File(<<A_PY, B_PY>>, Malformed)}},
        nb  \in {{}, {File(<<N_IPYNB>>, GoodDoc)}, {File(<<N_IPYNB>>, CommentDoc)}},
        req \in {{}, {File(<<REQUIREMENTS_TXT>>, Malformed)}},
        md  \in {{}, {File(<<M_PT>>, Malformed)}}}

DiscInit ==
    /\ pc = "discover"
    /\ tree \in Trees
    /\ flags = None
    /\ do_scan \in [python : BOOLEAN, notebooks : BOOLEAN, deps : BOOLEAN, models : BOOLEAN]
    /\ discovery = None
    /\ any_issue = FALSE /\ any_error = FALSE /\ scanned = <<>> /\ codes = {}
    /\ reported = FALSE /\ exit_code = None
    /\ ToolIdle /\ ConvIdle /\ ReprIdle /\ BatchIdle

Discover ==
    /\ pc = "discover"
    /\ discovery' = discover_targets(tree, do_scan.notebooks, do_scan.python,
                                     do_scan.deps, do_scan.models)
    /\ pc' = "discovered"
    /\ UNCHANGED <<tree, flags, do_scan, any_issue, any_error, scanned, codes, reported,
                   exit_code, toolVars, convVars, reprVars, batchVars>>

DiscNext == Discover
SpecDisc == DiscInit /\ [][DiscNext]_vars

KindOf(t, path) == (CHOOSE e \in t : e.path = path).kind
ListKeyOf(category) ==
    CASE category = "python" -> "py_files"
      [] category = "notebooks" -> "notebooks"
      [] category = "deps" -> "requirements"
      [] category = "models" -> "models"
ExpectedExts(category) ==
    CASE category = "python" -> {".py"}
      [] category = "notebooks" -> {".ipynb"}
      [] category = "models" -> ModelExts

\* C9: the Python, notebook and model lists discover_targets returns are sorted,
\* without duplicates, and hold only files (not directories) whose name has the
\* category's suffix; a category that was not asked for is absent from the result.
C9_ListsSortedFilesOnly ==
    pc = "discovered" =>
        /\ \A c \in {"python", "notebooks", "deps", "models"} :
              (ListKeyOf(c) \in DOMAIN discovery) <=> do_scan[c]
        /\ \A c \in {"python", "notebooks", "models"} :
              do_scan[c] =>
                  LET list == discovery[ListKeyOf(c)]
                  IN  /\ \A i, j \in 1..Len(list) : i < j => PathLess(list[i], list[j])
                      /\ \A i \in 1..Len(list) :
                            /\ list[i][Len(list[i])].ext \in ExpectedExts(c)
                            /\ KindOf(tree, list[i]) = "file"

-----------------------------------------------------------------------------
(* core.py: the scan functions; cli.py: _print_scan_section and main *)

PathChars(path) ==
    LET F[k \in 0..Len(path)] ==
            IF k = 0 THEN <<>> ELSE F[k - 1] \o <<"/">> \o NameChars(path[k])
    IN  F[Len(path)]

scan_python_files(target_paths, e) ==
    IF target_paths = <<>>
    THEN [output |-> <<"(skip sign) No Python files to scan">>, code |-> 0]
    ELSE run_tool(<<"bandit", "-r">> \o [k \in 1..Len(target_paths) |-> PathChars(target_paths[k])]
                      \o <<"-f", "txt">>, e)

\* req_file is None (no path) or the path of requirements.txt.
scan_dependencies(req_file, e) ==
    IF req_file = <<>>
    THEN [output |-> <<"(skip sign) No requirements.txt">>, code |-> 0]
    ELSE run_tool(<<"pip-audit", "-r", PathChars(req_file[1])>>, e)

scan_models(models, e) ==
    IF models = <<>>
    THEN [output |-> <<"(skip sign) No model files to scan">>, code |-> 0]
    ELSE run_tool(<<"modelscan", "-p">> \o [k \in 1..Len(models) |-> PathChars(models[k])], e)

\* The notebooks at the discovered paths, as scan_notebooks reads them.  A
\* directory cannot be read as a document.
NotebookAt(t, path) ==
    LET entry  == CHOOSE x \in t : x.path = path
        parent == IF Len(path) = 1 THEN TargetName ELSE NameChars(path[Len(path) - 1])
    IN  Notebook(PathChars(SubSeq(path, 1, Len(path) - 1)), parent, path[Len(path)].stem,
                 IF entry.kind = "file" THEN entry.doc ELSE Malformed)

\* What _print_scan_section returns: nothing (the bare return of line 81) when the
\* output has no line, else (has_issue, has_error).
NoValue == [none |-> TRUE]
print_scan_section(output, code) ==
    IF output = <<>> THEN NoValue
    ELSE [none |-> FALSE, has_issue |-> code = 1, has_error |-> code >= 2]

Categories == <<"python", "notebooks", "deps", "models">>

CommandLines ==
    [full : BOOLEAN, python : BOOLEAN, notebooks : BOOLEAN, deps : BOOLEAN, models : BOOLEAN]

MainInit ==
    /\ pc = "main"
    /\ tree \in Trees
    /\ flags \in CommandLines
    /\ do_scan = None /\ discovery = None
    /\ any_issue = FALSE /\ any_error = FALSE /\ scanned = <<>> /\ codes = {}
    /\ reported = FALSE /\ exit_code = None
    /\ ToolIdle /\ ConvIdle /\ ReprIdle /\ BatchIdle

\* Lines 105-130: the scan types and the discovery.
MainDiscover ==
    /\ pc = "main"
    /\ LET any_granular == flags.python \/ flags.notebooks \/ flags.deps \/ flags.models
           ds == [python    |-> flags.python \/ ~any_granular,
                  notebooks |-> flags.notebooks \/ ~any_granular,
                  deps      |-> flags.deps \/ ~any_granular,
                  models    |-> flags.models \/ ~any_granular]
       IN  /\ do_scan' = ds
           /\ discovery' = discover_targets(tree, ds.notebooks, ds.python, ds.deps, ds.models)
    /\ pc' = "python"
    /\ UNCHANGED <<tree, flags, any_issue, any_error, scanned, codes, reported, exit_code,
                   toolVars, convVars, reprVars, batchVars>>

\* A category's block in main: the scan's outcome is printed and the two values
\* the section returns are unpacked and accumulated.  Unpacking nothing raises
\* TypeError, which nothing catches: the interpreter ends with status 1.
Accumulate(category, outcome, next) ==
    LET section == print_scan_section(outcome.output, outcome.code)
    IN  /\ scanned' = Append(scanned, category)
        /\ codes' = codes \cup {outcome.code}
        /\ IF section.none
           THEN /\ pc' = "crashed"
                /\ exit_code' = 1
                /\ UNCHANGED <<any_issue, any_error>>
           ELSE /\ pc' = next
                /\ any_issue' = (any_issue \/ section.has_issue)
                /\ any_error' = (any_error \/ section.has_error)
                /\ UNCHANGED exit_code

Skip(next) ==
    /\ pc' = next
    /\ UNCHANGED <<any_issue, any_error, scanned, codes, exit_code>>

\* Lines 141-145.
MainPython ==
    /\ pc = "python"
    /\ IF do_scan.python
       THEN \E e \in ScanEnvs :
               Accumulate("python",
                          scan_python_files(Get(discovery, "py_files", <<>>), e),
                          "notebooks")
       ELSE Skip("notebooks")
    /\ UNCHANGED <<tree, flags, do_scan, discovery, reported,
                   toolVars, convVars, reprVars, batchVars>>

\* Lines 148-152.
MainNotebooks ==
    /\ pc = "notebooks"
    /\ IF do_scan.notebooks
       THEN \E e \in ScanEnvs :
               LET paths == Get(discovery, "notebooks", <<>>)
                   batch == [k \in 1..Len(paths) |-> NotebookAt(tree, paths[k])]
               IN  Accumulate("notebooks", scan_notebooks(batch, e), "deps")
       ELSE Skip("deps")
    /\ UNCHANGED <<tree, flags, do_scan, discovery, reported,
                   toolVars, convVars, reprVars, batchVars>>

\* Lines 155-159.
MainDeps ==
    /\ pc = "deps"
    /\ IF do_scan.deps
       THEN \E e \in ScanEnvs :
               Accumulate("deps",
                          scan_dependencies(Get(discovery, "requirements", <<>>), e),
                          "models")
       ELSE Skip("models")
    /\ UNCHANGED <<tree, flags, do_scan, discovery, reported,
                   toolVars, convVars, reprVars, batchVars>>

\* Lines 162-166.
MainModels ==
    /\ pc = "models"
    /\ IF do_scan.models
       THEN \E e \in ScanEnvs :
               Accumulate("models", scan_models(Get(discovery, "models", <<>>), e), "report")
       ELSE Skip("report")
    /\ UNCHANGED <<tree, flags, do_scan, discovery, reported,
                   toolVars, convVars, reprVars, batchVars>>

\* Lines 168-187: the report, then sys.exit.
MainReport ==
    /\ pc = "report"
    /\ reported' = TRUE
    /\ exit_code' = IF any_issue \/ any_error THEN 1 ELSE 0
    /\ pc' = "exited"
    /\ UNCHANGED <<tree, flags, do_scan, discovery, any_issue, any_error, scanned, codes,
                   toolVars, convVars, reprVars, batchVars>>

MainNext ==
    MainDiscover \/ MainPython \/ MainNotebooks \/ MainDeps \/ MainModels \/ MainReport
SpecMain == MainInit /\ [][MainNext]_vars

\* C1: the process exit code is 1 if at least one scanned category reported an
\* issue (status 1) or a tool error (status >= 2, or the tool runner's -1), and 0
\* otherwise.
C1_ExitCode ==
    pc = "exited" =>
        exit_code = IF \E c \in codes : c = 1 \/ c >= 2 \/ c = -1 THEN 1 ELSE 0

\* The categories asked for, in main's order.
Requested(ds) ==
    LET F[k \in 0..Len(Categories)] ==
            IF k = 0 THEN <<>>
            ELSE IF ds[Categories[k]] THEN Append(F[k - 1], Categories[k]) ELSE F[k - 1]
    IN  F[Len(Categories)]

\* C2: whatever (output, status) an earlier category produced, a run has scanned
\* every requested category, in the order Python, notebooks, dependencies,
\* models, and reached the Reporter when it ends.
C2_CategoriesIndependent ==
    pc \in {"exited", "crashed"} =>
        /\ scanned = Requested(do_scan)
        /\ reported

\* C5: main discovers and scans all four categories when --full is given, all
\* four when no flag is given, and otherwise exactly the categories whose
\* granular flag is given.
C5_SelectedCategories ==
    pc \notin {"main"} =>
        LET all_four == flags.full
                        \/ ~(flags.python \/ flags.notebooks \/ flags.deps \/ flags.models)
        IN  \A c \in {"python", "notebooks", "deps", "models"} :
                /\ do_scan[c] <=> (all_four \/ flags[c])
                /\ (ListKeyOf(c) \in DOMAIN discovery) <=> (all_four \/ flags[c])

=============================================================================
